---- MODULE Spec2Model ----
(***************************************************************************)
(* Model of the Telegram topic -> webhook forwarder.                      *)
(*                                                                         *)
(*   db_schema.py      the configuration store (SQLite, four tables)       *)
(*   bot.py            the router (handle_new_message), the transformer    *)
(*                     and delivery engine (forward_to_webhook), and the   *)
(*                     compound operator operation add_configuration       *)
(*   config_manager.py the operator flow that calls delete_configuration   *)
(*                                                                         *)
(* The store is the record db of the committed tables.  A connection that  *)
(* has executed DML without committing holds its pending tables in txn.    *)
(* The webhooks.description column is never read by any query of the       *)
(* program and is left out of the webhook rows.                            *)
(***************************************************************************)
EXTENDS Integers, Sequences, FiniteSets, TLC

VARIABLES db, txn, cli, rdr, h

vars == <<db, txn, cli, rdr, h>>

(***************************************************************************)
(* Bounds of the model.                                                    *)
(***************************************************************************)
MaxGroupId == 1
MaxTopicId == 2
MaxWebhookId == 2
MaxMappingId == 3

GroupIds == 1..MaxGroupId
TopicIds == 1..MaxTopicId
WebhookIds == 1..MaxWebhookId
GroupNames == {"Ops"}
TopicNames == {"alerts"}

\* Python's None, where a string or a status is expected.
None == "None"
\* Python's None, where a row id is expected (row ids start at 1).
NoId == 0
\* No tables: a connection without a pending transaction.
NoDb == [none |-> TRUE]
\* No arguments, no dict.
NoArgs == [none |-> TRUE]

(***************************************************************************)
(* URLs are character sequences, so that lower() and the substring test    *)
(* of the destination classification are computed, not assumed.            *)
(***************************************************************************)
URL_DISCORD == <<"D", "i", "s", "c", "o", "r", "d", "/", "x">>
URL_SLACK == <<"s", "l", "a", "c", "k", "/", "y">>
URL_OTHER == <<"h", "o", "o", "k", "/", "z">>
\* Python's None, where a url is expected.
NoUrl == <<None>>
Urls == {URL_DISCORD, URL_SLACK, URL_OTHER}

SetMax(S) == CHOOSE x \in S : \A y \in S : y <= x
SetMin(S) == CHOOSE x \in S : \A y \in S : x <= y

(***************************************************************************)
(* The schema: the tables start empty, and so do the AUTOINCREMENT         *)
(* counters that SQLite keeps in sqlite_sequence.                          *)
(***************************************************************************)
SCHEMA ==
    [groups |-> {}, topics |-> {}, webhooks |-> {},
     topic_webhook_mapping |-> {},
     seq_webhooks |-> 0, seq_mapping |-> 0]

\* aiosqlite.connect() issues no "PRAGMA foreign_keys = ON": SQLite then
\* parses the FOREIGN KEY clauses of the schema and does not enforce them.
foreign_keys == FALSE

\* The rowid an AUTOINCREMENT table gives to a new row: one more than the
\* largest rowid ever used, which sqlite_sequence remembers across deletes.
NextRowid(ids, seq) == SetMax(ids \cup {seq}) + 1

GroupExists(d, g) == \E r \in d.groups : r.group_id = g
TopicExists(d, t) == \E r \in d.topics : r.topic_id = t
WebhookExists(d, w) == \E r \in d.webhooks : r.webhook_id = w

\* INSERT OR REPLACE INTO groups: the row with the same primary key goes.
add_group(d, g, name) ==
    [d EXCEPT !.groups = {r \in @ : r.group_id # g}
                           \cup {[group_id |-> g, group_name |-> name]}]

\* Does the INSERT into topics raise?  Only under enforced foreign keys.
add_topic_raises(d, g) == foreign_keys /\ ~GroupExists(d, g)

\* INSERT OR REPLACE INTO topics.
add_topic(d, g, t, name) ==
    IF add_topic_raises(d, g) THEN d
    ELSE [d EXCEPT !.topics = {r \in @ : r.topic_id # t}
             \cup {[topic_id |-> t, group_id |-> g, topic_name |-> name]}]

\* cursor.lastrowid of the INSERT INTO webhooks.
add_webhook_id(d) ==
    NextRowid({r.webhook_id : r \in d.webhooks}, d.seq_webhooks)

\* INSERT INTO webhooks: always a new row, whatever the url.
add_webhook(d, url) ==
    [d EXCEPT !.webhooks = @ \cup {[webhook_id |-> add_webhook_id(d),
                                   url |-> url]},
              !.seq_webhooks = add_webhook_id(d)]

map_topic_to_webhook_raises(d, t, w) ==
    foreign_keys /\ ~(TopicExists(d, t) /\ WebhookExists(d, w))

\* The rows an INSERT OR REPLACE of the pair (t, w) removes first: those
\* that conflict on UNIQUE(topic_id, webhook_id).
ConflictingNoUnique(m, t, w) == {}
Conflicting(m, t, w) == {r \in m : r.topic_id = t /\ r.webhook_id = w}

\* INSERT OR REPLACE INTO topic_webhook_mapping: the conflicting row is
\* deleted and the pair inserted again under a new mapping_id.
map_topic_to_webhook(d, t, w) ==
    IF map_topic_to_webhook_raises(d, t, w) THEN d
    ELSE LET id == NextRowid({r.mapping_id : r \in d.topic_webhook_mapping},
                             d.seq_mapping)
         IN [d EXCEPT !.topic_webhook_mapping =
                          (@ \ Conflicting(@, t, w))
                          \cup {[mapping_id |-> id, topic_id |-> t,
                                 webhook_id |-> w]},
                      !.seq_mapping = id]

\* The rows of "webhooks w JOIN topic_webhook_mapping m ON w.webhook_id =
\* m.webhook_id WHERE m.topic_id = t".
WebhookJoin(d, t) ==
    {<<m, w>> \in d.topic_webhook_mapping \X d.webhooks :
        m.topic_id = t /\ m.webhook_id = w.webhook_id}

\* fetchone() of a SELECT without ORDER BY: SQLite walks the index of
\* UNIQUE(topic_id, webhook_id), so the first row has the least webhook_id.
FirstRow(ws) == SetMin(ws)

\* result[0] if result else None
get_webhook_for_topic(d, t) ==
    LET rows == WebhookJoin(d, t)
    IN IF rows = {} THEN NoUrl
       ELSE LET first == FirstRow({p[2].webhook_id : p \in rows})
            IN (CHOOSE p \in rows : p[2].webhook_id = first)[2].url

\* fetchall() of the four-table join, as the bag of its rows.
list_configurations(d) ==
    LET joined == {q \in d.groups \X d.topics \X d.topic_webhook_mapping
                           \X d.webhooks :
                      /\ q[1].group_id = q[2].group_id
                      /\ q[2].topic_id = q[3].topic_id
                      /\ q[3].webhook_id = q[4].webhook_id}
        row(q) == <<q[1].group_name, q[2].topic_name, q[4].url,
                    q[2].topic_id>>
    IN [x \in {row(q) : q \in joined} |->
           Cardinality({q \in joined : row(q) = x})]

(***************************************************************************)
(* delete_configuration, statement by statement.                           *)
(***************************************************************************)
\* fetchone() of "SELECT webhook_id FROM topic_webhook_mapping WHERE
\* topic_id = ?": None, or the least webhook_id mapped from the topic.
delete_select(d, t) ==
    LET ws == {r.webhook_id : r \in {m \in d.topic_webhook_mapping :
                                        m.topic_id = t}}
    IN IF ws = {} THEN NoId ELSE FirstRow(ws)

\* DELETE FROM topic_webhook_mapping WHERE topic_id = ?
delete_mapping_first(d, t) ==
    [d EXCEPT !.topic_webhook_mapping =
        {r \in @ : ~(r.topic_id = t /\ r.webhook_id = delete_select(d, t))}]
delete_mapping(d, t) ==
    [d EXCEPT !.topic_webhook_mapping = {r \in @ : r.topic_id # t}]

\* DELETE FROM webhooks WHERE webhook_id = ? AND NOT EXISTS (SELECT 1 FROM
\* topic_webhook_mapping WHERE webhook_id = ?)
delete_webhook_always(d, w) ==
    [d EXCEPT !.webhooks = {r \in @ : r.webhook_id # w}]
delete_webhook(d, w) ==
    IF \E m \in d.topic_webhook_mapping : m.webhook_id = w THEN d
    ELSE [d EXCEPT !.webhooks = {r \in @ : r.webhook_id # w}]

\* DELETE FROM topics WHERE topic_id = ?
delete_topic(d, t) ==
    [d EXCEPT !.topics = {r \in @ : r.topic_id # t}]

\* What other connections see of a connection's DML before its commit():
\* sqlite3 opens a transaction implicitly before the first DELETE, so the
\* committed tables stay as they were.
execute_autocommit(committed, pending) == pending
execute(committed, pending) == committed

\* db.commit()
commit(committed, pending) == pending

\* The whole of delete_configuration on the tables d: the three DELETEs
\* when the topic has a mapping row, nothing otherwise.
delete_configuration(d, t) ==
    LET w == delete_select(d, t)
    IN IF w = NoId THEN d
       ELSE delete_topic(delete_webhook(delete_mapping(d, t), w), t)

(***************************************************************************)
(* The inbound event (bot.py, handle_new_message): what the handler reads  *)
(* of the message, its chat and its sender.                                *)
(***************************************************************************)
\* message.reply_to: None, or a MessageReplyHeader whose reply_to_top_id
\* may be None (NoId) and whose reply_to_msg_id is a message id.
NoReply == [is_header |-> FALSE, reply_to_top_id |-> NoId,
            reply_to_msg_id |-> NoId]
ReplyHeaders ==
    {NoReply} \cup
    [is_header : {TRUE}, reply_to_top_id : {NoId} \cup TopicIds,
     reply_to_msg_id : {MaxTopicId}]

\* event.get_sender(): None, a sender without username, a sender with one.
Senders == {"absent", "no_username", "named"}
SenderId == 7
SenderUsername(sender) == IF sender = "named" THEN "alice" ELSE None

Texts == {"", "server down"}
MessageDate == "2025-01-01T00:00:00+00:00"

Messages ==
    [is_group : BOOLEAN, reply_to : ReplyHeaders, sender : Senders,
     text : Texts, media : BOOLEAN]

\* What the store query of the handler can do: return, or raise (a locked
\* or unreadable database file).
QueryOutcomes == {"rows", "raise"}

\* What the attachment download can do: return a path, return None (media
\* that has nothing to download), or raise.
DownloadOutcomes == {"path", "none", "raise"}
FilePath == "downloads/photo.jpg"

\* The response to a POST: an HTTP status, or no response at all.
TransportError == 0
PostOutcomes == {200, 204, 201, 500, TransportError}

\* topic_id = reply_to_top_id or reply_to_msg_id, None without a header
ExtractTopicMsgFirst(m) ==
    IF ~m.reply_to.is_header THEN NoId
    ELSE IF m.reply_to.reply_to_msg_id # NoId
         THEN m.reply_to.reply_to_msg_id
         ELSE m.reply_to.reply_to_top_id
ExtractTopic(m) ==
    IF ~m.reply_to.is_header THEN NoId
    ELSE IF m.reply_to.reply_to_top_id # NoId
         THEN m.reply_to.reply_to_top_id
         ELSE m.reply_to.reply_to_msg_id

\* Python truth of a str-or-None: None and "" are false.
TruthyAlways(url) == TRUE
Truthy(url) == url # NoUrl /\ url # <<>>

\* str.lower() on the characters a url of the model can hold.
LowerChar(c) == IF c = "D" THEN "d" ELSE c
Lower(u) == [i \in 1..Len(u) |-> LowerChar(u[i])]

\* sub in u
Contains(sub, u) ==
    \E i \in 0..(Len(u) - Len(sub)) :
        \A j \in 1..Len(sub) : u[i + j] = sub[j]

\* 'discord' in webhook_url.lower()
IsDiscordAny(u) == TRUE
IsDiscord(u) == Contains(<<"d", "i", "s", "c", "o", "r", "d">>, Lower(u))

\* f"https://cdn.discordapp.com/embed/avatars/{n}.png"
AvatarUrl(n) == <<"avatars", n>>

\* "username": sender.username if sender else "Unknown"
UsernameNoDefault(m) == SenderUsername(m.sender)
Username(m) ==
    IF m.sender # "absent" THEN SenderUsername(m.sender) ELSE "Unknown"

\* message_data as built for the message m of topic t; the keys "file" and
\* "content" are absent (has_file FALSE) until the media branch adds them.
MessageData(m, t) ==
    [message_id |-> 1, topic_id |-> t, chat_id |-> 100,
     chat_title |-> "Ops",
     from_id |-> IF m.sender # "absent" THEN SenderId ELSE NoId,
     from_username |-> SenderUsername(m.sender),
     text |-> m.text, date |-> MessageDate,
     username |-> Username(m),
     avatar_url |-> IF m.sender # "absent" THEN AvatarUrl(SenderId % 5)
                    ELSE NoUrl,
     has_file |-> FALSE, file |-> None, content |-> None]

HInit ==
    [pc |-> "idle",
     msg |-> [is_group |-> FALSE, reply_to |-> NoReply, sender |-> "absent",
              text |-> "", media |-> FALSE],
     topic_id |-> NoId, webhook_url |-> NoUrl,
     nmapped |-> 0, nrows |-> 0,
     message_data |-> NoArgs,
     file_path |-> "unbound", on_disk |-> FALSE, file_handle |-> "none",
     downloads |-> 0, posts |-> <<>>, removes |-> 0, log |-> {}]

(***************************************************************************)
(* The operator process: one store call at a time, from config_manager.py  *)
(* or from any other caller of db_schema.py.  cli.pc is its position,      *)
(* cli.op and cli.a the call and its arguments, cli.ret what the call      *)
(* returned or raised, cli.pre the committed tables when the call began,   *)
(* cli.rerun whether the call repeats the previous call exactly, cli.wid   *)
(* the webhook id the call holds.                                          *)
(***************************************************************************)
CliInit ==
    [pc |-> "idle", op |-> None, a |-> NoArgs, ret |-> None, pre |-> NoDb,
     rerun |-> FALSE, wid |-> NoId]

RdrInit ==
    [pc |-> "idle", op |-> None, topic_id |-> 0, result |-> <<>>,
     during |-> None]

Init ==
    /\ db = SCHEMA
    /\ txn = NoDb
    /\ cli = CliInit
    /\ rdr = RdrInit
    /\ h = HInit

\* A single-statement call: execute and commit, then hold the result.
Call(op, args, d2, ret) ==
    /\ cli.pc = "idle"
    /\ db' = d2
    /\ cli' = [pc |-> "returned", op |-> op, a |-> args, ret |-> ret,
               pre |-> db, rerun |-> FALSE,
               wid |-> IF op = "add_webhook" THEN add_webhook_id(db)
                       ELSE NoId]
    /\ UNCHANGED <<txn, rdr, h>>

AddGroup ==
    \E g \in GroupIds, name \in GroupNames :
        Call("add_group", [group_id |-> g, group_name |-> name],
             add_group(db, g, name), None)

AddTopic ==
    \E g \in GroupIds, t \in TopicIds, name \in TopicNames :
        Call("add_topic",
             [group_id |-> g, topic_id |-> t, topic_name |-> name],
             add_topic(db, g, t, name),
             IF add_topic_raises(db, g) THEN "IntegrityError" ELSE None)

AddWebhook ==
    \E url \in Urls :
        /\ add_webhook_id(db) <= MaxWebhookId
        /\ Call("add_webhook", [url |-> url], add_webhook(db, url), None)

MapTopicToWebhook ==
    \E t \in TopicIds, w \in WebhookIds :
        /\ db.seq_mapping < MaxMappingId
        /\ Call("map_topic_to_webhook", [topic_id |-> t, webhook_id |-> w],
                map_topic_to_webhook(db, t, w),
                IF map_topic_to_webhook_raises(db, t, w)
                THEN "IntegrityError" ELSE None)

\* The caller makes the call it has just made once more, with the same
\* arguments.
Rerun ==
    /\ cli.pc = "returned"
    /\ cli.op \in {"add_group", "add_topic", "map_topic_to_webhook"}
    /\ cli.op = "map_topic_to_webhook" => db.seq_mapping < MaxMappingId
    /\ db' = CASE cli.op = "add_group" ->
                    add_group(db, cli.a.group_id, cli.a.group_name)
               [] cli.op = "add_topic" ->
                    add_topic(db, cli.a.group_id, cli.a.topic_id,
                              cli.a.topic_name)
               [] cli.op = "map_topic_to_webhook" ->
                    map_topic_to_webhook(db, cli.a.topic_id,
                                         cli.a.webhook_id)
    /\ cli' = [cli EXCEPT !.pre = db, !.rerun = TRUE]
    /\ UNCHANGED <<txn, rdr, h>>

\* The caller takes the result and goes on.
Return ==
    /\ cli.pc = "returned"
    /\ cli' = CliInit
    /\ UNCHANGED <<db, txn, rdr, h>>

(***************************************************************************)
(* delete_configuration as the connection runs it.                         *)
(***************************************************************************)
\* connect, SELECT webhook_id ..., fetchone()
DeleteSelect ==
    \E t \in TopicIds :
        /\ cli.pc = "idle"
        /\ cli' = [pc |-> "del_fetched", op |-> "delete_configuration",
                   a |-> [topic_id |-> t], ret |-> None, pre |-> db,
                   rerun |-> FALSE,
                   wid |-> delete_select(db, t)]
        /\ UNCHANGED <<db, txn, rdr, h>>

\* "if result:" is false: return False
DeleteNothing ==
    /\ cli.pc = "del_fetched"
    /\ cli.wid = NoId
    /\ cli' = [cli EXCEPT !.pc = "returned", !.ret = "False"]
    /\ UNCHANGED <<db, txn, rdr, h>>

DeleteMapping ==
    /\ cli.pc = "del_fetched"
    /\ cli.wid # NoId
    /\ txn' = delete_mapping(db, cli.a.topic_id)
    /\ db' = execute(db, txn')
    /\ cli' = [cli EXCEPT !.pc = "del_webhook"]
    /\ UNCHANGED <<rdr, h>>

DeleteWebhook ==
    /\ cli.pc = "del_webhook"
    /\ txn' = delete_webhook(txn, cli.wid)
    /\ db' = execute(db, txn')
    /\ cli' = [cli EXCEPT !.pc = "del_topic"]
    /\ UNCHANGED <<rdr, h>>

DeleteTopic ==
    /\ cli.pc = "del_topic"
    /\ txn' = delete_topic(txn, cli.a.topic_id)
    /\ db' = execute(db, txn')
    /\ cli' = [cli EXCEPT !.pc = "del_commit"]
    /\ UNCHANGED <<rdr, h>>

\* await db.commit(); return True
DeleteCommit ==
    /\ cli.pc = "del_commit"
    /\ db' = commit(db, txn)
    /\ txn' = NoDb
    /\ cli' = [cli EXCEPT !.pc = "returned", !.ret = "True"]
    /\ UNCHANGED <<rdr, h>>

(***************************************************************************)
(* TelegramForwarder.add_configuration: four store calls in a row, each    *)
(* committed on its own.                                                   *)
(***************************************************************************)
AddConfigurationGroup ==
    \E g \in GroupIds, gname \in GroupNames, t \in TopicIds,
       tname \in TopicNames, url \in Urls :
        /\ cli.pc = "idle"
        /\ add_webhook_id(db) <= MaxWebhookId
        /\ db.seq_mapping < MaxMappingId
        /\ db' = add_group(db, g, gname)
        /\ cli' = [pc |-> "ac_topic", op |-> "add_configuration",
                   a |-> [group_id |-> g, group_name |-> gname,
                          topic_id |-> t, topic_name |-> tname, url |-> url],
                   ret |-> None, pre |-> db, rerun |-> FALSE, wid |-> NoId]
        /\ UNCHANGED <<txn, rdr, h>>

AddConfigurationTopic ==
    /\ cli.pc = "ac_topic"
    /\ db' = add_topic(db, cli.a.group_id, cli.a.topic_id, cli.a.topic_name)
    /\ cli' = IF add_topic_raises(db, cli.a.group_id)
              THEN [cli EXCEPT !.pc = "returned", !.ret = "IntegrityError"]
              ELSE [cli EXCEPT !.pc = "ac_webhook"]
    /\ UNCHANGED <<txn, rdr, h>>

AddConfigurationWebhook ==
    /\ cli.pc = "ac_webhook"
    /\ db' = add_webhook(db, cli.a.url)
    /\ cli' = [cli EXCEPT !.pc = "ac_map", !.wid = add_webhook_id(db)]
    /\ UNCHANGED <<txn, rdr, h>>

AddConfigurationMap ==
    /\ cli.pc = "ac_map"
    /\ db' = map_topic_to_webhook(db, cli.a.topic_id, cli.wid)
    /\ cli' = [cli EXCEPT !.pc = "returned",
                 !.ret = IF map_topic_to_webhook_raises(db, cli.a.topic_id,
                                                        cli.wid)
                         THEN "IntegrityError" ELSE None]
    /\ UNCHANGED <<txn, rdr, h>>

(***************************************************************************)
(* A reader on a connection of its own: it sees the committed tables.      *)
(***************************************************************************)
ReadWebhookForTopic ==
    \E t \in TopicIds :
        /\ rdr.pc = "idle"
        /\ rdr' = [pc |-> "got", op |-> "get_webhook_for_topic",
                   topic_id |-> t, result |-> get_webhook_for_topic(db, t),
                   during |-> cli.pc]
        /\ UNCHANGED <<db, txn, cli, h>>

ReadListConfigurations ==
    /\ rdr.pc = "idle"
    /\ rdr' = [pc |-> "got", op |-> "list_configurations", topic_id |-> 0,
               result |-> list_configurations(db), during |-> cli.pc]
    /\ UNCHANGED <<db, txn, cli, h>>

ReadReturn ==
    /\ rdr.pc = "got"
    /\ rdr' = RdrInit
    /\ UNCHANGED <<db, txn, cli, h>>

(***************************************************************************)
(* forward_to_webhook: the payload it builds, then the request.            *)
(***************************************************************************)
EmbedColor == 3447003

\* The default format, for every url that is not a Discord url.
DefaultDataGeneric(md) ==
    [message_id |-> md.message_id, topic_id |-> md.topic_id,
     chat_id |-> md.chat_id, chat_title |-> md.chat_title,
     from_id |-> md.from_id, from_username |-> md.from_username,
     text |-> md.text, date |-> md.date, username |-> md.username,
     avatar_url |-> md.avatar_url]
DefaultData(md) == [text |-> md.text, username |-> md.username]

\* "name": message_data.get("username", "Unknown"); the key is always
\* there, so the default of get() never applies.
AuthorNameChatTitle(md) == md.chat_title
AuthorName(md) == md.username

\* webhook_data for the url and the message_data md
WebhookData(url, md) ==
    IF IsDiscord(url)
    THEN [username |-> md.username, avatar_url |-> md.avatar_url,
          embeds |-> << [description |-> md.text, color |-> EmbedColor,
                         author |-> [name |-> AuthorName(md),
                                     icon_url |-> md.avatar_url],
                         timestamp |-> md.date,
                         image |-> IF md.has_file
                                   THEN "attachment://image.jpg"
                                   ELSE None] >>]
    ELSE DefaultData(md)

\* Is the request multipart?  Only for Discord with a "file" key.
IsMultipart(url, md) == IsDiscord(url) /\ md.has_file

\* open(message_data["file"], "rb") raises when the path is None.
OpenRaises(md) == md.file = None

\* response.status not in [200, 204]
StatusIsError(o) == o \notin {200, 204}

\* The log lines forward_to_webhook writes for the outcome o of its POST:
\* the error line for a bad status, and the success line whenever no
\* exception was raised.
ForwardLog(o) ==
    IF o = TransportError THEN {"forward_exception"}
    ELSE (IF StatusIsError(o) THEN {"webhook_error"} ELSE {})
         \cup {"forward_success"}

\* The POSTs one call of forward_to_webhook issues for the outcome o of
\* its session.post: that one request, whatever the outcome.
RequestsWithRetry(url, md, o) ==
    LET post == [url |-> url, multipart |-> IsMultipart(url, md),
                 body |-> WebhookData(url, md),
                 file |-> IF IsMultipart(url, md) THEN md.file ELSE None,
                 outcome |-> o]
    IN IF StatusIsError(o) THEN <<post, post>> ELSE <<post>>
Requests(url, md, o) ==
    << [url |-> url, multipart |-> IsMultipart(url, md),
        body |-> WebhookData(url, md),
        file |-> IF IsMultipart(url, md) THEN md.file ELSE None,
        outcome |-> o] >>

\* The attachment file handle when the multipart send is over: the inner
\* "finally" closes it on every path.
FileHandleAfterNoFinally(o) ==
    IF o = TransportError THEN "open" ELSE "closed"
FileHandleAfter(o) == "closed"

\* Where the handler goes on after forward_to_webhook, which catches its
\* own exceptions: to the cleanup when the message has media and
\* file_path is bound.
ForwardNextEscapes(hh, o) ==
    IF o = TransportError THEN "done"
    ELSE IF hh.msg.media /\ hh.file_path # "unbound" THEN "cleanup"
    ELSE "done"
ForwardNext(hh, o) ==
    IF hh.msg.media /\ hh.file_path # "unbound" THEN "cleanup" ELSE "done"

\* lines 131-134: the download raised; log and return.
DownloadRaisedFallThrough(hh) ==
    [hh EXCEPT !.pc = "forward", !.downloads = @ + 1,
               !.log = @ \cup {"media_error"}]
DownloadRaised(hh) ==
    [hh EXCEPT !.pc = "done", !.downloads = @ + 1,
               !.log = @ \cup {"media_error"}]

\* lines 146-148: an exception reaches the handler's "except Exception";
\* it is logged and the handler returns.
HandlerExceptUncaught(hh) == [hh EXCEPT !.pc = "crashed"]
HandlerExcept(hh) ==
    [hh EXCEPT !.pc = "done", !.log = @ \cup {"handler_exception"}]

(***************************************************************************)
(* handle_new_message, from one suspension point to the next.              *)
(***************************************************************************)
\* lines 67-93: the group filter and the topic extraction
Receive ==
    \E m \in Messages :
        /\ h.pc = "idle"
        /\ h' = IF ~m.is_group \/ ExtractTopic(m) = NoId
                THEN [HInit EXCEPT !.pc = "done", !.msg = m]
                ELSE [HInit EXCEPT !.pc = "resolve", !.msg = m,
                                   !.topic_id = ExtractTopic(m)]
        /\ UNCHANGED <<db, txn, cli, rdr>>

\* lines 96-115: the store query, the sender line, message_data
Resolve ==
    \E q \in QueryOutcomes :
    /\ h.pc = "resolve"
    /\ LET url == get_webhook_for_topic(db, h.topic_id)
           seen == [h EXCEPT !.webhook_url = url,
                      !.nmapped = Cardinality(WebhookJoin(db, h.topic_id)),
                      !.nrows = Cardinality({m \in db.topic_webhook_mapping :
                                               m.topic_id = h.topic_id})]
       IN h' = IF q = "raise"
               THEN HandlerExcept(h)
               ELSE IF ~Truthy(url)
               THEN [seen EXCEPT !.pc = "done"]
               ELSE IF h.msg.sender = "absent"
               THEN \* sender.username raises AttributeError
                    HandlerExcept(seen)
               ELSE [seen EXCEPT
                       !.pc = IF h.msg.media THEN "download" ELSE "forward",
                       !.message_data = MessageData(h.msg, h.topic_id)]
    /\ UNCHANGED <<db, txn, cli, rdr>>

\* lines 118-134: message.download_media and the Discord keys
Download ==
    \E o \in DownloadOutcomes :
        /\ h.pc = "download"
        /\ h' = IF o = "raise"
                THEN DownloadRaised(h)
                ELSE LET path == IF o = "path" THEN FilePath ELSE None
                     IN [h EXCEPT
                           !.pc = "forward", !.downloads = @ + 1,
                           !.file_path = path, !.on_disk = (o = "path"),
                           !.message_data =
                               IF IsDiscord(h.webhook_url)
                               THEN [@ EXCEPT !.has_file = TRUE,
                                              !.file = path,
                                              !.content =
                                                  IF h.msg.text # ""
                                                  THEN h.msg.text ELSE ""]
                               ELSE @]
        /\ UNCHANGED <<db, txn, cli, rdr>>

\* line 136: forward_to_webhook(webhook_url, message_data), one POST
Forward ==
    \E o \in PostOutcomes :
        /\ h.pc = "forward"
        /\ LET url == h.webhook_url
               md == h.message_data
               next == ForwardNext(h, o)
           IN h' = IF IsMultipart(url, md) /\ OpenRaises(md)
                   THEN [h EXCEPT !.pc = next,
                                  !.log = @ \cup {"forward_exception"}]
                   ELSE [h EXCEPT
                           !.pc = next,
                           !.posts = @ \o Requests(url, md, o),
                           !.file_handle = IF IsMultipart(url, md)
                                           THEN FileHandleAfter(o) ELSE @,
                           !.log = @ \cup ForwardLog(o)]
        /\ UNCHANGED <<db, txn, cli, rdr>>

\* lines 139-144: os.remove(file_path), which raises on a None path and
\* may raise on a path
Cleanup ==
    \E ok \in BOOLEAN :
        /\ h.pc = "cleanup"
        /\ h' = IF h.file_path # None /\ ok
                THEN [h EXCEPT !.pc = "done", !.removes = @ + 1,
                               !.on_disk = FALSE]
                ELSE [h EXCEPT !.pc = "done", !.removes = @ + 1,
                               !.log = @ \cup {"delete_error"}]
        /\ UNCHANGED <<db, txn, cli, rdr>>

\* the handler returns; the client delivers the next event
Finish ==
    /\ h.pc = "done"
    /\ h' = HInit
    /\ UNCHANGED <<db, txn, cli, rdr>>

HandleNewMessage ==
    \/ Receive
    \/ Resolve
    \/ Download
    \/ Forward
    \/ Cleanup
    \/ Finish

DeleteConfiguration ==
    \/ DeleteSelect
    \/ DeleteNothing
    \/ DeleteMapping
    \/ DeleteWebhook
    \/ DeleteTopic
    \/ DeleteCommit

AddConfiguration ==
    \/ AddConfigurationGroup
    \/ AddConfigurationTopic
    \/ AddConfigurationWebhook
    \/ AddConfigurationMap

\* The store under arbitrary calls of its operations.
Next ==
    \/ AddGroup
    \/ AddTopic
    \/ AddWebhook
    \/ MapTopicToWebhook
    \/ Rerun
    \/ Return
    \/ DeleteConfiguration

Spec == Init /\ [][Next]_vars

\* The operator's two compound operations, with a concurrent reader.
NextOperator ==
    \/ AddConfiguration
    \/ DeleteConfiguration
    \/ Return
    \/ ReadWebhookForTopic
    \/ ReadListConfigurations
    \/ ReadReturn

SpecOperator == Init /\ [][NextOperator]_vars

\* The router at work while the operator configures topics.
NextRoute ==
    \/ AddConfiguration
    \/ DeleteConfiguration
    \/ Return
    \/ HandleNewMessage

SpecRoute == Init /\ [][NextRoute]_vars

(***************************************************************************)
(* Properties.                                                             *)
(***************************************************************************)
RoutedPlain ==
    h.pc = "done" /\ h.msg.sender # "absent" /\ ~h.msg.media

\* C1: a message of a topic mapped to N >= 1 webhooks gets exactly N
\* delivery attempts, one per mapped webhook (stated for a message with a
\* sender and without media, whose routing has ended).
C1_FanOut ==
    (RoutedPlain /\ h.nmapped >= 1) => Len(h.posts) = h.nmapped

\* C2: a group message whose topic has no mapping row when the router
\* queries the store causes no POST and no attachment download.
C2_UnmappedNoCalls ==
    (h.pc \notin {"idle", "resolve"} /\ h.topic_id # NoId /\ h.nrows = 0)
        => (Len(h.posts) = 0 /\ h.downloads = 0)

\* C2 witness: the router has resolved a media message of an unmapped
\* topic, in a store that maps another topic, and has ended its routing.
C2_Witness ==
    /\ h.pc = "done"
    /\ h.topic_id # NoId
    /\ h.nrows = 0
    /\ h.msg.media
    /\ h.msg.sender = "named"
    /\ h.log = {}
    /\ db.topic_webhook_mapping # {}

AddConfigurationReturned ==
    cli.pc = "returned" /\ cli.op = "add_configuration" /\ cli.ret = None

\* C3: when add_configuration(g, t, url) has returned, from whatever store
\* state it started, get_webhook_for_topic(t) is the url just inserted.
C3_RoundTrip ==
    AddConfigurationReturned
        => get_webhook_for_topic(db, cli.a.topic_id) = cli.a.url

DeleteReturned ==
    cli.pc = "returned" /\ cli.op = "delete_configuration"

\* The topics mapped to the webhook w in the tables d.
TopicsOf(d, w) ==
    {m.topic_id : m \in {r \in d.topic_webhook_mapping : r.webhook_id = w}}

\* C4: delete_configuration(t) keeps a webhook row of t that another topic
\* still maps, and removes a webhook row that only t mapped.
C4_SharedKeptExclusiveRemoved ==
    DeleteReturned =>
        \A w \in cli.pre.webhooks :
            cli.a.topic_id \in TopicsOf(cli.pre, w.webhook_id) =>
                IF TopicsOf(cli.pre, w.webhook_id) = {cli.a.topic_id}
                THEN w \notin db.webhooks
                ELSE w \in db.webhooks

\* C5: after delete_configuration(t) no topic row and no mapping row of t
\* is left, and it returns True exactly when it removed a row.
C5_DeleteRemovesTopic ==
    DeleteReturned =>
        /\ ~TopicExists(db, cli.a.topic_id)
        /\ \A m \in db.topic_webhook_mapping : m.topic_id # cli.a.topic_id
        /\ (cli.ret = "True") <=> (db # cli.pre)

\* C6: add_topic under a group id that has no row raises and leaves the
\* tables as they were.
C6_UnknownGroupFails ==
    (cli.pc = "returned" /\ cli.op = "add_topic" /\ ~cli.rerun
     /\ ~GroupExists(cli.pre, cli.a.group_id))
        => (cli.ret = "IntegrityError" /\ db = cli.pre)

\* C7: every mapping row references a topic row and a webhook row that
\* exist.
C7_MappingReferencesExist ==
    \A m \in db.topic_webhook_mapping :
        TopicExists(db, m.topic_id) /\ WebhookExists(db, m.webhook_id)

InDelete ==
    /\ cli.op = "delete_configuration"
    /\ cli.pc \in {"del_fetched", "del_webhook", "del_topic", "del_commit"}

ReadResult(op, t, d) ==
    IF op = "get_webhook_for_topic" THEN get_webhook_for_topic(d, t)
    ELSE list_configurations(d)

\* C8: a get_webhook_for_topic or list_configurations that runs while a
\* delete_configuration is under way reads either the tables as they were
\* before the delete or the tables after all of its statements, and
\* returns the result of one of the two.
C8_DeleteAtomic ==
    [][(rdr.pc = "idle" /\ rdr'.pc = "got" /\ InDelete) =>
          LET before == cli.pre
              after == delete_configuration(cli.pre, cli.a.topic_id)
          IN /\ db \in {before, after}
             /\ rdr'.result \in
                    {ReadResult(rdr'.op, rdr'.topic_id, before),
                     ReadResult(rdr'.op, rdr'.topic_id, after)}]_vars

\* C8 witness: a list_configurations ran while the delete had executed its
\* three DELETEs and not yet committed, and returned the rows from before
\* the delete, which the pending tables no longer hold.
C8_Witness ==
    /\ cli.pc = "del_commit"
    /\ rdr.pc = "got"
    /\ rdr.during = "del_commit"
    /\ rdr.op = "list_configurations"
    /\ rdr.result = list_configurations(cli.pre)
    /\ rdr.result # list_configurations(txn)

RowCounts(d) ==
    <<Cardinality(d.groups), Cardinality(d.topics), Cardinality(d.webhooks),
      Cardinality(d.topic_webhook_mapping)>>

Pairs(d) == {<<m.topic_id, m.webhook_id>> : m \in d.topic_webhook_mapping}

\* C9: add_group, add_topic or map_topic_to_webhook called again with the
\* arguments of the call before leaves the row counts of the four tables
\* and the set of (topic, webhook) pairs as they were.
C9_Idempotent ==
    (cli.pc = "returned" /\ cli.rerun) =>
        /\ RowCounts(db) = RowCounts(cli.pre)
        /\ Pairs(db) = Pairs(cli.pre)

\* C9 witness: map_topic_to_webhook was called again for a pair already
\* mapped, and replaced the row (the tables differ in the mapping_id).
C9_Witness ==
    /\ cli.pc = "returned"
    /\ cli.rerun
    /\ cli.op = "map_topic_to_webhook"
    /\ db # cli.pre
    /\ Cardinality(db.topic_webhook_mapping) >= 2

\* C10: a delivery is reported as successful exactly when the response
\* status is 200 or 204; any other status and a transport failure are
\* reported as a failure, with no success reported.
C10_SuccessIff200or204 ==
    \A i \in 1..Len(h.posts) :
        /\ ("forward_success" \in h.log) <=> (h.posts[i].outcome \in {200, 204})
        /\ (h.posts[i].outcome \notin {200, 204})
               => (h.log \cap {"webhook_error", "forward_exception"}) # {}

\* C11: when the download of a message's media raises, the routing of the
\* message ends there with no POST at all, so no text-only delivery.
C11_FetchFailureAborts ==
    ("media_error" \in h.log) => (h.pc = "done" /\ Len(h.posts) = 0)

\* C11 witness: a media message of a configured topic whose download
\* raised, routing over.
C11_Witness ==
    /\ h.pc = "done"
    /\ h.msg.media
    /\ Truthy(h.webhook_url)
    /\ h.downloads = 1
    /\ "media_error" \in h.log
    /\ h.file_path = "unbound"

\* C12: when the download gave the handler a file, the handler has tried
\* to delete it once by the time it is done with the message, whatever the
\* POST did, and a failed delete does not reach the handler's except.
C12_AttachmentReleased ==
    (h.pc = "done" /\ h.file_path = FilePath)
        => (h.removes = 1 /\ "handler_exception" \notin h.log)

\* C12 witness: the file was downloaded, the POST raised, the delete was
\* attempted and failed, and the handler is done.
C12_Witness ==
    /\ h.pc = "done"
    /\ h.file_path = FilePath
    /\ h.removes = 1
    /\ h.on_disk
    /\ {"forward_exception", "delete_error"} \subseteq h.log
    /\ Len(h.posts) = 1
    /\ h.posts[1].outcome = TransportError

ErrorLines ==
    {"handler_exception", "media_error", "forward_exception", "delete_error"}

\* C13: the handler is always at one of its own positions, and once any
\* error of a message (store query, sender, download, POST, file delete)
\* has been raised it is caught and logged and the handler is on its way
\* to its normal return, after which the next message is taken.
C13_ErrorsCaught ==
    /\ h.pc \in {"idle", "resolve", "download", "forward", "cleanup", "done"}
    /\ (h.log \cap ErrorLines # {}) => h.pc \in {"cleanup", "done"}

\* C13 witness: the store query of a message raised, the handler logged it
\* and is done.
C13_Witness ==
    /\ h.pc = "done"
    /\ h.topic_id # NoId
    /\ h.webhook_url = NoUrl
    /\ h.log = {"handler_exception"}

\* C14: a message of a configured topic whose sender is absent is posted
\* to the topic's webhook, under the username "Unknown" (stated for a
\* message without media).
C14_AbsentSenderRouted ==
    (h.pc = "done" /\ h.msg.sender = "absent" /\ ~h.msg.media
     /\ Truthy(h.webhook_url))
        => (Len(h.posts) = 1 /\ h.posts[1].body.username = "Unknown")

\* 'slack' in the lower-cased url: Provider B of the specification.
IsSlack(u) == Contains(<<"s", "l", "a", "c", "k">>, Lower(u))

GenericKeys ==
    {"message_id", "topic_id", "chat_id", "chat_title", "from_id",
     "from_username", "text", "date", "username", "avatar_url"}

\* C15 as claimed: the body posted to a url that is neither a Discord nor
\* a Slack url is the normalized record, with its ten keys.
C15_GenericPassThrough ==
    \A i \in 1..Len(h.posts) :
        (~IsDiscord(h.posts[i].url) /\ ~IsSlack(h.posts[i].url))
            => DOMAIN h.posts[i].body = GenericKeys

\* C15 as amended: the body posted to a url that is neither a Discord nor
\* a Slack url is the flat default object: the keys text and username
\* only, with the values of the normalized record, never multipart.
C15_OtherGetsDefault ==
    \A i \in 1..Len(h.posts) :
        (~IsDiscord(h.posts[i].url) /\ ~IsSlack(h.posts[i].url))
            => /\ DOMAIN h.posts[i].body = {"text", "username"}
               /\ h.posts[i].body.text = h.message_data.text
               /\ h.posts[i].body.username = h.message_data.username
               /\ ~h.posts[i].multipart

\* C15 witness: a message with text was posted to the url that is neither.
C15_Witness ==
    /\ Len(h.posts) = 1
    /\ h.posts[1].url = URL_OTHER
    /\ h.posts[1].body.text = "server down"
    /\ h.posts[1].body.username = "alice"

\* C16: every body posted to a Discord url has exactly one embed, of color
\* 3447003, whose author.name is the username of the normalized record;
\* and the transformer gives author.name "Unknown" to the record of a
\* message without sender.
C16_DiscordEmbed ==
    /\ \A i \in 1..Len(h.posts) :
          IsDiscord(h.posts[i].url) =>
              /\ "embeds" \in DOMAIN h.posts[i].body
              /\ Len(h.posts[i].body.embeds) = 1
              /\ h.posts[i].body.embeds[1].color = 3447003
              /\ h.posts[i].body.embeds[1].author.name
                     = h.message_data.username
              /\ h.message_data.username = SenderUsername(h.msg.sender)
    /\ \A m \in Messages :
          LET wd == WebhookData(URL_DISCORD, MessageData(m, 1))
          IN /\ Len(wd.embeds) = 1
             /\ wd.embeds[1].color = 3447003
             /\ wd.embeds[1].author.name =
                    IF m.sender = "absent" THEN "Unknown"
                    ELSE SenderUsername(m.sender)

\* C16 witness: a message of a named sender was posted to the Discord url.
C16_Witness ==
    /\ Len(h.posts) = 1
    /\ IsDiscord(h.posts[1].url)
    /\ h.msg.sender = "named"
    /\ h.posts[1].body.embeds[1].author.name = "alice"

\* C17: a request to a Slack url is never multipart and carries no file;
\* its body has the keys text and username only, also for a message whose
\* media was downloaded.
C17_SlackNoAttachment ==
    \A i \in 1..Len(h.posts) :
        IsSlack(h.posts[i].url) =>
            /\ ~h.posts[i].multipart
            /\ h.posts[i].file = None
            /\ DOMAIN h.posts[i].body = {"text", "username"}
            /\ ~h.message_data.has_file

\* C17 witness: a media message was downloaded and then posted to the
\* Slack url.
C17_Witness ==
    /\ h.msg.media
    /\ h.file_path = FilePath
    /\ Len(h.posts) = 1
    /\ h.posts[1].url = URL_SLACK

\* The topic id the claim names for a message: the anchor id when there
\* is one, else the reply-target id, none without a reply header.
ClaimedTopic(m) ==
    CASE ~m.reply_to.is_header -> NoId
      [] m.reply_to.is_header /\ m.reply_to.reply_to_top_id # NoId ->
             m.reply_to.reply_to_top_id
      [] OTHER -> m.reply_to.reply_to_msg_id

\* C18: the handler resolves a group message under the anchor id when the
\* message has one, else under the reply-target id; a message with
\* neither, or not from a group, is dropped with no download and no POST.
C18_TopicExtraction ==
    h.pc # "idle" =>
        /\ (h.msg.is_group /\ ClaimedTopic(h.msg) # NoId)
               => h.topic_id = ClaimedTopic(h.msg)
        /\ (~h.msg.is_group \/ ClaimedTopic(h.msg) = NoId)
               => (h.pc = "done" /\ Len(h.posts) = 0 /\ h.downloads = 0
                   /\ h.webhook_url = NoUrl)

\* C18 witness: a message with an anchor id and a different reply-target
\* id was posted after being resolved under the anchor id.
C18_Witness ==
    /\ h.pc = "done"
    /\ h.msg.reply_to.reply_to_top_id # NoId
    /\ h.msg.reply_to.reply_to_top_id # h.msg.reply_to.reply_to_msg_id
    /\ h.topic_id = h.msg.reply_to.reply_to_top_id
    /\ Len(h.posts) = 1

\* C19: for one message no url gets more than one POST, whatever the
\* outcome of the POST.
C19_NoRetry ==
    \A u \in Urls :
        Cardinality({i \in 1..Len(h.posts) : h.posts[i].url = u}) <= 1

\* C19 witness: the POST of a message got status 500 and the handler is
\* done, having posted once.
C19_Witness ==
    /\ h.pc = "done"
    /\ Len(h.posts) = 1
    /\ h.posts[1].outcome = 500
    /\ "webhook_error" \in h.log

\* C20: once a multipart send is over the attachment file handle is
\* closed, for a good status, a bad status and a request that raised.
C20_FileHandleClosed ==
    /\ h.pc \in {"cleanup", "done"} => h.file_handle # "open"
    /\ \A i \in 1..Len(h.posts) :
          h.posts[i].multipart => h.file_handle = "closed"

\* C20 witness: a multipart request raised and the handle is closed.
C20_Witness ==
    /\ Len(h.posts) = 1
    /\ h.posts[1].multipart
    /\ h.posts[1].file = FilePath
    /\ h.posts[1].outcome = TransportError
    /\ h.file_handle = "closed"

\* C21: whenever the operator is between two operations, having run only
\* add_configuration and delete_configuration, every webhook row is
\* referenced by a mapping row.
C21_NoOrphanWebhooks ==
    cli.pc \in {"idle", "returned"} =>
        \A w \in db.webhooks :
            \E m \in db.topic_webhook_mapping : m.webhook_id = w.webhook_id

DeletedTrue == DeleteReturned /\ cli.ret = "True"

\* C22: while delete_configuration(t) has returned True and the operator
\* has done nothing since, get_webhook_for_topic(t) is None, and a handler
\* that queries the store for a message of topic t ends the routing of
\* that message at once, with no download and no POST.
C22_DeleteTakesEffect ==
    [][DeletedTrue =>
          /\ get_webhook_for_topic(db, cli.a.topic_id) = NoUrl
          /\ (h.pc = "resolve" /\ h.topic_id = cli.a.topic_id
              /\ h'.pc # "resolve")
                 => /\ h'.pc = "done"
                    /\ h'.posts = <<>>
                    /\ h'.downloads = 0
                    /\ ~Truthy(h'.webhook_url)]_vars

\* C22 witness: the delete of a topic that had two webhooks has returned
\* True, and the handler has ended the routing of a message of that topic
\* on an empty store answer.
C22_Witness ==
    /\ DeletedTrue
    /\ Cardinality(TopicsOf(cli.pre, 1) \cap TopicsOf(cli.pre, 2)
                   \cap {cli.a.topic_id}) = 1
    /\ h.pc = "done"
    /\ h.topic_id = cli.a.topic_id
    /\ h.nrows = 0
    /\ h.log = {}
    /\ h.msg.sender = "named"

\* The rows and the answer the store holds for the topic t.
TopicView(d, t) ==
    [topic |-> {r \in d.topics : r.topic_id = t},
     mapping |-> {m \in d.topic_webhook_mapping : m.topic_id = t},
     url |-> get_webhook_for_topic(d, t)]

\* C23: delete_configuration(t) leaves the topic row, the mapping rows
\* and the get_webhook_for_topic answer of every other topic as they were.
C23_DeleteFrame ==
    DeleteReturned =>
        \A t \in TopicIds \ {cli.a.topic_id} :
            TopicView(db, t) = TopicView(cli.pre, t)

\* C23 witness: the deleted topic was mapped to two webhooks, one of them
\* shared with another topic that resolves to it.
C23_Witness ==
    /\ DeletedTrue
    /\ \E t \in TopicIds \ {cli.a.topic_id} :
          /\ TopicsOf(cli.pre, cli.wid) = {t, cli.a.topic_id}
          /\ TopicExists(cli.pre, t)
          /\ get_webhook_for_topic(db, t) # NoUrl
    /\ Cardinality({m \in cli.pre.topic_webhook_mapping :
                       m.topic_id = cli.a.topic_id}) = 2

====
